---- MODULE Spec2Model ----
(***************************************************************************)
(* Model of src/ReAct.py: the ReAct orchestration loop (ReActLoop.run),    *)
(* the directive parser (ReActLoop.extract_action), the transcript holder  *)
(* (Agent) and the two capabilities (Calculator, BingSearch).              *)
(*                                                                         *)
(* Text representation.  A Python str is modelled as a sequence of tokens. *)
(* A token is an indivisible fragment of text.  Every maximal run of the   *)
(* characters [A-Za-z_] that the code tests or extracts (the keywords      *)
(* Answer, PAUSE, Action and the capability names) is a token of its own,  *)
(* so a substring test for a keyword is a membership test on the token     *)
(* sequence.  The empty str is <<>> and str concatenation is \o.           *)
(***************************************************************************)
EXTENDS Integers, Sequences, FiniteSets, TLC

(***************************************************************************)
(* Bounds                                                                  *)
(***************************************************************************)
\* Config.MAX_ITERATIONS of the modelled run (the source's default is 10).
MaxIterations == 3

(***************************************************************************)
(* Text helpers                                                            *)
(***************************************************************************)
NL == "\n"

\* Tokens that are words, i.e. made of the characters [A-Za-z_] only.
WordTokens ==
    {"Action", "action", "Answer", "PAUSE", "Thought", "Observation",
     "calculate", "Calculate", "wikipedia", "unknown_tool",
     "x", "foo", "France", "Paris", "q"}

\* str.lower() on a word token (only the words with capitals change).
Lower(tok) ==
    CASE tok = "Action" -> "action"
      [] tok = "Calculate" -> "calculate"
      [] tok = "Answer" -> "answer"
      [] tok = "Thought" -> "thought"
      [] tok = "Observation" -> "observation"
      [] tok = "France" -> "france"
      [] tok = "Paris" -> "paris"
      [] tok = "PAUSE" -> "pause"
      [] OTHER -> tok

\* Python's  sub in text  for a word sub.
Contains(sub, text) == \E k \in 1..Len(text) : text[k] = sub

\* "\n".join(parts)
RECURSIVE JoinLines(_)
JoinLines(parts) ==
    IF Len(parts) = 0 THEN <<>>
    ELSE IF Len(parts) = 1 THEN parts[1]
    ELSE parts[1] \o <<NL>> \o JoinLines(Tail(parts))

(***************************************************************************)
(* Completions the language model may produce (inputs of the run)          *)
(***************************************************************************)
LThought == <<"Thought", ": ", "x">>
LCalc == <<"Action", ": ", "calculate", ": ", "2", " + ", "2">>
LCalcIds == <<"Action", ": ", "calculate", ": ", "foo">>
LWiki == <<"Action", ": ", "wikipedia", ": ", "France">>
LUnknown == <<"Action", ": ", "unknown_tool", ": ", "foo">>
LUpper == <<"Action", ": ", "Calculate", ": ", "2", " + ", "2">>
LLower == <<"action", ": ", "calculate", ": ", "2", " + ", "2">>
LSpaced == <<"Action", ": ", "wikipedia", " : ", "France">>
LParis == <<"Action", ": ", "Paris", ".">>
LPause == <<"PAUSE">>
LAnswer == <<"Answer", ": ", "4">>

TCalc == JoinLines(<<LThought, LCalc, LPause>>)
TCalcIds == JoinLines(<<LCalcIds, LPause>>)
TWiki == JoinLines(<<LWiki, LPause>>)
TUnknown == JoinLines(<<LUnknown, LPause>>)
TUpper == JoinLines(<<LUpper, LPause>>)
TLower == JoinLines(<<LLower, LPause>>)
TSpaced == JoinLines(<<LSpaced, LPause>>)
TTwo == JoinLines(<<LCalc, LWiki, LPause>>)
TParisFirst == JoinLines(<<LParis, LCalc, LPause>>)
TNoPause == JoinLines(<<LThought, LCalc>>)
TAnswer == LAnswer
TAnswerAction == JoinLines(<<LCalc, LPause, LAnswer>>)

Completions ==
    {TCalc, TCalcIds, TWiki, TUnknown, TUpper, TLower, TSpaced, TTwo,
     TParisFirst, TNoPause, TAnswer, TAnswerAction}

\* Queries passed to run, the empty str included.
Queries == {<<>>, <<"q">>}

\* The system argument of Agent.__init__: "" (the default) or SYSTEM_PROMPT.
SYSTEM_PROMPT == <<"SYSTEM_PROMPT">>
Systems == {<<>>, SYSTEM_PROMPT}

(***************************************************************************)
(* Values                                                                  *)
(***************************************************************************)
None == "None"

\* return "达到最大迭代次数限制"
ExhaustedSentinel == <<"iteration limit reached">>
\* f"计算失败: {str(e)}"
CalcFailedPrefix == <<"calculation failed", ": ">>
\* f"搜索失败: {str(e)}"
SearchFailedPrefix == <<"search failed", ": ">>
\* "未找到相关结果"
NoResultsSentinel == <<"no results">>

\* Exception classes that derive from Exception (caught by  except Exception).
ExceptionClasses ==
    {"NameError", "SyntaxError", "ConnectError", "HTTPStatusError"}

\* Outcome of a call: it returns a value or it raises.
Returned(value) == [raised |-> FALSE, value |-> value, exc |-> None]
Raised(exc) == [raised |-> TRUE, value |-> <<>>, exc |-> exc]

(***************************************************************************)
(* Calculator                                                              *)
(***************************************************************************)
NumVal == ("0" :> 0) @@ ("2" :> 2) @@ ("4" :> 4)

\* eval(expression, {"__builtins__": {}}, {}) on the expressions of the model:
\* a number literal, a sum or product of two literals, a bare identifier
\* (no name is defined in the empty environment), anything else.
Eval(expression) ==
    IF Len(expression) = 1 /\ expression[1] \in DOMAIN NumVal
    THEN [ok |-> TRUE, val |-> NumVal[expression[1]], type |-> None, detail |-> <<>>]
    ELSE IF /\ Len(expression) = 3
            /\ expression[1] \in DOMAIN NumVal
            /\ expression[3] \in DOMAIN NumVal
            /\ expression[2] \in {" + ", " * "}
    THEN [ok |-> TRUE,
          val |-> IF expression[2] = " + "
                  THEN NumVal[expression[1]] + NumVal[expression[3]]
                  ELSE NumVal[expression[1]] * NumVal[expression[3]],
          type |-> None, detail |-> <<>>]
    ELSE IF Len(expression) = 1 /\ expression[1] \in WordTokens
    THEN [ok |-> FALSE, val |-> 0, type |-> "NameError",
          detail |-> <<"name '", expression[1], "' is not defined">>]
    ELSE [ok |-> FALSE, val |-> 0, type |-> "SyntaxError",
          detail |-> <<"invalid syntax">>]

\* Calculator.__call__ with an except clause that misses NameError.
CalculatorNarrowExcept(expression) ==
    LET r == Eval(expression) IN
    IF r.ok THEN Returned(<<ToString(r.val)>>)
    ELSE IF r.type = "SyntaxError" THEN Returned(CalcFailedPrefix \o r.detail)
    ELSE Raised(r.type)

Calculator(expression) ==
    LET r == Eval(expression) IN
    IF r.ok THEN Returned(<<ToString(r.val)>>)
    ELSE IF r.type \in ExceptionClasses THEN Returned(CalcFailedPrefix \o r.detail)
    ELSE Raised(r.type)

(***************************************************************************)
(* BingSearch                                                              *)
(***************************************************************************)
\* Number of results kept (len(results) >= 5).
MaxResults == 5

\* A .b_algo block of the page: its h2 text and its .b_caption p text, None
\* when select_one finds nothing.
Block(title, desc) == [title |-> title, desc |-> desc]

\* What the backend may do on client.get / raise_for_status / parsing: raise
\* (error names the exception class) or deliver a page with these blocks.
Page(blocks) == [error |-> None, blocks |-> blocks]
Failure(error) == [error |-> error, blocks |-> <<>>]

BackendResponses ==
    {Failure("HTTPStatusError"),
     Page(<<Block("t1", "d1"), Block(None, "d2"), Block("t3", None),
            Block("t4", "d4")>>)}

\* Longest page of the pages the search is tried on.
MaxBlocks == 7

\* The ways a .b_algo block can be: with heading and caption, without a
\* heading, without a caption.
BlockKinds == {"both", "no title", "no desc"}

\* The page whose k-th block is of the k-th kind; texts carry the position.
PageOfKinds(kinds) ==
    Page([k \in 1..Len(kinds) |->
            Block(IF kinds[k] = "no title" THEN None ELSE "t" \o ToString(k),
                  IF kinds[k] = "no desc" THEN None ELSE "d" \o ToString(k))])

\* Every page of at most MaxBlocks blocks.
SearchPages ==
    {PageOfKinds(kinds) : kinds \in UNION {[1..n -> BlockKinds] : n \in 0..MaxBlocks}}

\* The loop with the test  len(results) > 5.
RECURSIVE CollectResultsOneMore(_, _, _)
CollectResultsOneMore(blocks, k, results) ==
    IF k > Len(blocks) THEN results
    ELSE LET item == blocks[k]
             added == IF item.title # None /\ item.desc # None
                      THEN Append(results, <<item.title, ": ", item.desc>>)
                      ELSE results
         IN IF Len(added) > MaxResults THEN added
            ELSE CollectResultsOneMore(blocks, k + 1, added)

\* The for loop over soup.select('.b_algo'), from block k on.
RECURSIVE CollectResults(_, _, _)
CollectResults(blocks, k, results) ==
    IF k > Len(blocks) THEN results
    ELSE LET item == blocks[k]
             added == IF item.title # None /\ item.desc # None
                      THEN Append(results, <<item.title, ": ", item.desc>>)
                      ELSE results
         IN IF Len(added) >= MaxResults THEN added
            ELSE CollectResults(blocks, k + 1, added)

BingSearch(query, response) ==
    IF response.error # None
    THEN IF response.error \in ExceptionClasses
         THEN Returned(SearchFailedPrefix \o <<response.error>>)
         ELSE Raised(response.error)
    ELSE LET results == CollectResults(response.blocks, 1, <<>>) IN
         Returned(IF results # <<>> THEN JoinLines(results) ELSE NoResultsSentinel)

(***************************************************************************)
(* Capability registry (ReActLoop.__init__)                                *)
(***************************************************************************)
tools == ("wikipedia" :> "BingSearch") @@ ("calculate" :> "Calculator")

\* self.tools.get(tool_name) with a lookup that ignores case.
ToolsGetIgnoreCase(tool_name) ==
    IF Lower(tool_name) \in DOMAIN tools THEN tools[Lower(tool_name)] ELSE None

\* self.tools.get(tool_name)
ToolsGet(tool_name) ==
    IF tool_name \in DOMAIN tools THEN tools[tool_name] ELSE None

\* The Calculator talks to no backend.
NoBackend == [error |-> "no backend", blocks |-> <<>>]

\* What the world outside may answer to a call of the tool.
Environments(tool) ==
    IF tool = "BingSearch" THEN BackendResponses ELSE {NoBackend}

\* tool(arg)
CallTool(tool, arg, env) ==
    IF tool = "BingSearch" THEN BingSearch(arg, env) ELSE Calculator(arg)

\* Whether the operation underneath the capability failed on this call.
UnderlyingFault(tool, arg, env) ==
    IF tool = "BingSearch" THEN env.error # None ELSE ~Eval(arg).ok

(***************************************************************************)
(* Directive parser (ReActLoop.extract_action)                             *)
(***************************************************************************)
\* Last position of the line that position p lies on ("." matches no "\n").
RECURSIVE LineEnd(_, _)
LineEnd(text, p) ==
    IF p + 1 > Len(text) \/ text[p + 1] = NL THEN p ELSE LineEnd(text, p + 1)

\* Dotall variant: "." matches "\n" too, the group runs to the end of the text.
TextEnd(text, p) == Len(text)

\* End of the group (.+) that starts at position p.
RestEnd(text, p) == LineEnd(text, p)

\* The pattern with optional blanks before the second colon: r"... *: (.+)".
MatchAtLoose(text, p) ==
    /\ p + 4 <= Len(text)
    /\ Lower(text[p]) = "action"
    /\ text[p + 1] = ": "
    /\ text[p + 2] \in WordTokens
    /\ text[p + 3] \in {": ", " : "}
    /\ text[p + 4] # NL

\* r"Action: ([a-z_]+): (.+)" under re.IGNORECASE matches at position p.
MatchAt(text, p) ==
    /\ p + 4 <= Len(text)
    /\ Lower(text[p]) = "action"
    /\ text[p + 1] = ": "
    /\ text[p + 2] \in WordTokens
    /\ text[p + 3] = ": "
    /\ text[p + 4] # NL

\* re.findall: the groups of all non-overlapping matches, left to right.
RECURSIVE FindAll(_, _)
FindAll(text, from) ==
    IF from > Len(text) THEN <<>>
    ELSE IF MatchAt(text, from)
    THEN LET e == RestEnd(text, from + 4) IN
         <<[name |-> text[from + 2], arg |-> SubSeq(text, from + 4, e)]>>
             \o FindAll(text, e + 1)
    ELSE FindAll(text, from + 1)

\* The None that extract_action returns when nothing matches.
NoAction == [name |-> None, arg |-> <<>>]

\* extract_action returning the last match (match[-1]).
extract_action_last(text) ==
    LET match == FindAll(text, 1) IN
    IF match # <<>> THEN match[Len(match)] ELSE NoAction

extract_action(text) ==
    LET match == FindAll(text, 1) IN
    IF match # <<>> THEN match[1] ELSE NoAction

(***************************************************************************)
(* Agent                                                                   *)
(***************************************************************************)
Message(role, content) == [role |-> role, content |-> content]

\* Agent.__init__
AgentInit(system) ==
    IF system # <<>> THEN <<Message("system", system)>> ELSE <<>>

\* Agent.__call__ that skips a message equal to the last user message.
AgentAppendUserDedup(msgs, message) ==
    IF message # <<>> /\ ~\E k \in 1..Len(msgs) : msgs[k] = Message("user", message)
    THEN Append(msgs, Message("user", message))
    ELSE msgs

\* Agent.__call__ without the test  if message.
AgentAppendUserAlways(msgs, message) == Append(msgs, Message("user", message))

\* Agent.__call__, before execute: if message: append the user message.
AgentAppendUser(msgs, message) ==
    IF message # <<>> THEN Append(msgs, Message("user", message)) ELSE msgs

\* Agent.execute: agent_answer(self.messages) gets the whole transcript.
ExecuteArgument(msgs) == msgs

\* An agent that keeps a window of the two newest messages.
AgentAppendAssistantWindow(msgs, completion) ==
    LET all == Append(msgs, Message("assistant", completion)) IN
    IF Len(all) > 2 THEN SubSeq(all, Len(all) - 1, Len(all)) ELSE all

\* Agent.__call__, after execute: append the assistant message.
AgentAppendAssistant(msgs, completion) ==
    Append(msgs, Message("assistant", completion))

(***************************************************************************)
(* ReActLoop.run: the tests and texts of the loop body                     *)
(***************************************************************************)
\* for i in range(MAX_ITERATIONS + 1)
ForHasNextOffByOne(k) == k <= MaxIterations

\* for i in range(self.config.MAX_ITERATIONS): another iteration follows.
ForHasNext(k) == k < MaxIterations

\* A loop that does not advance its counter.
NextIterationStuck(k) == k

\* The for statement takes the next value of range: the iteration is over.
NextIteration(k) == k + 1

\* result.startswith("Answer")
AnswerStartsWith(completion) == Len(completion) > 0 /\ completion[1] = "Answer"

\* "Answer" in result
AnswerIn(completion) == Contains("Answer", completion)

\* "PAUSE" not in result and "Action" not in result
InvalidFormatBoth(completion) ==
    ~Contains("PAUSE", completion) /\ ~Contains("Action", completion)

\* "PAUSE" not in result or "Action" not in result
InvalidFormat(completion) ==
    ~Contains("PAUSE", completion) \/ ~Contains("Action", completion)

\* f"{result_tool}" without the prefix
ObservationBare(result_tool) == result_tool

\* f"Observation: {result_tool}"
Observation(result_tool) == <<"Observation", ": ">> \o result_tool

\* f"Observation: Tool '{tool_name}' not found"
ToolNotFound(tool_name) ==
    <<"Observation", ": ", "Tool '", tool_name, "' not found">>

\* return next_prompt at the end of the loop
ExhaustedReturnsPrompt(prompt) == prompt

\* return "达到最大迭代次数限制"
ExhaustedResult(prompt) == ExhaustedSentinel

(***************************************************************************)
(* State                                                                   *)
(***************************************************************************)
VARIABLES
    messages,     \* Agent.messages, the transcript
    pc,           \* where the caller of run is: "idle" (agent built, run not
                  \* called), "for" (head of the for loop), "execute" (inside
                  \* agent.execute, completion requested), "tool" (inside
                  \* tool(arg)), "returned", "raised"
    i,            \* number of iterations of the for loop that are over
    next_prompt,  \* local next_prompt of run
    result,       \* local result of run, the last completion
    call,         \* the directive being dispatched while pc = "tool", else None
    retval,       \* what run returned, <<>> before it returns
    state,        \* "RUNNING", "ANSWERED" (return result), "EXHAUSTED"
    query,        \* the query run was called with, <<>> before the call
    requests,     \* history: number of completions requested
    calls,        \* history: the capability calls made, in order
    sent,         \* history: the transcript handed to the last agent_answer
    runs          \* history: number of times run was called on the agent

vars ==
    <<messages, pc, i, next_prompt, result, call, retval, state, query,
      requests, calls, sent, runs>>

NoCall == [name |-> None, tool |-> None, arg |-> <<>>]

Init ==
    /\ \E system \in Systems : messages = AgentInit(system)
    /\ pc = "idle"
    /\ i = 0
    /\ next_prompt = <<>>
    /\ result = <<>>
    /\ call = NoCall
    /\ retval = <<>>
    /\ state = "RUNNING"
    /\ query = <<>>
    /\ requests = 0
    /\ calls = <<>>
    /\ sent = <<>>
    /\ runs = 0

(***************************************************************************)
(* Actions                                                                 *)
(***************************************************************************)
\* run(agent, query) is called: next_prompt = query.
Run(q) ==
    /\ pc = "idle"
    /\ pc' = "for"
    /\ query' = q
    /\ next_prompt' = q
    /\ i' = 0
    /\ runs' = runs + 1
    /\ UNCHANGED <<messages, result, call, retval, state, requests, calls, sent>>

\* A loop that starts a tool without waiting for it: the next iteration may
\* start while the call is in flight.
AgentCallEarly ==
    /\ pc \in {"for", "tool"}
    /\ ForHasNext(i)
    /\ messages' = AgentAppendUser(messages, next_prompt)
    /\ sent' = ExecuteArgument(messages')
    /\ requests' = requests + 1
    /\ pc' = "execute"
    /\ UNCHANGED <<i, next_prompt, result, call, retval, state, query, calls, runs>>

\* An iteration starts: agent(next_prompt) appends the user message and asks
\* the language model for a completion.
AgentCall ==
    /\ pc = "for"
    /\ ForHasNext(i)
    /\ messages' = AgentAppendUser(messages, next_prompt)
    /\ sent' = ExecuteArgument(messages')
    /\ requests' = requests + 1
    /\ pc' = "execute"
    /\ UNCHANGED <<i, next_prompt, result, call, retval, state, query, calls, runs>>

\* The completion arrives: agent appends it and returns it, and the loop body
\* runs up to its return, its continue, the call of a tool or the end of the
\* iteration.
ExecuteReturns(completion) ==
    /\ pc = "execute"
    /\ messages' = AgentAppendAssistant(messages, completion)
    /\ result' = completion
    /\ IF AnswerIn(completion)
       THEN /\ retval' = completion
            /\ state' = "ANSWERED"
            /\ pc' = "returned"
            /\ UNCHANGED <<i, next_prompt, call>>
       ELSE IF InvalidFormat(completion) \/ extract_action(completion) = NoAction
       THEN /\ i' = NextIteration(i)
            /\ pc' = "for"
            /\ UNCHANGED <<next_prompt, call, retval, state>>
       ELSE LET action == extract_action(completion)
                tool == ToolsGet(action.name)
            IN IF tool # None
               THEN /\ call' = [name |-> action.name, tool |-> tool,
                                arg |-> action.arg]
                    /\ pc' = "tool"
                    /\ UNCHANGED <<i, next_prompt, retval, state>>
               ELSE /\ next_prompt' = ToolNotFound(action.name)
                    /\ i' = NextIteration(i)
                    /\ pc' = "for"
                    /\ UNCHANGED <<call, retval, state>>
    /\ UNCHANGED <<query, requests, calls, sent, runs>>

\* A run that catches the failure of agent_answer and tries the iteration
\* again.
ExecuteRaisesRetry ==
    /\ pc = "execute"
    /\ pc' = "for"
    /\ UNCHANGED <<messages, i, next_prompt, result, call, retval, state,
                   query, requests, calls, sent, runs>>

\* agent_answer raises: nothing in Agent or run catches it.
ExecuteRaises ==
    /\ pc = "execute"
    /\ pc' = "raised"
    /\ UNCHANGED <<messages, i, next_prompt, result, call, retval, state,
                   query, requests, calls, sent, runs>>

\* tool(arg) comes back: the observation becomes the next prompt and the
\* iteration ends.  Were the tool to raise, run would raise.
ToolReturns(env) ==
    /\ pc = "tool"
    /\ LET out == CallTool(call.tool, call.arg, env) IN
       /\ calls' = Append(calls,
                          [iteration |-> i + 1, name |-> call.name,
                           tool |-> call.tool, arg |-> call.arg,
                           fault |-> UnderlyingFault(call.tool, call.arg, env),
                           raised |-> out.raised, value |-> out.value])
       /\ IF out.raised
          THEN /\ pc' = "raised"
               /\ UNCHANGED <<i, next_prompt>>
          ELSE /\ next_prompt' = Observation(out.value)
               /\ i' = NextIteration(i)
               /\ pc' = "for"
    /\ call' = NoCall
    /\ UNCHANGED <<messages, result, retval, state, query, requests, sent, runs>>

\* A loop that hands the pending prompt to the agent's transcript before it
\* gives up.
ReturnExhaustedAppends ==
    /\ pc = "for"
    /\ ~ForHasNext(i)
    /\ messages' = AgentAppendUser(messages, next_prompt)
    /\ retval' = ExhaustedResult(next_prompt)
    /\ state' = "EXHAUSTED"
    /\ pc' = "returned"
    /\ UNCHANGED <<i, next_prompt, result, call, query, requests, calls, sent, runs>>

\* The for loop is over: return the sentinel.
ReturnExhausted ==
    /\ pc = "for"
    /\ ~ForHasNext(i)
    /\ retval' = ExhaustedResult(next_prompt)
    /\ state' = "EXHAUSTED"
    /\ pc' = "returned"
    /\ UNCHANGED <<messages, i, next_prompt, result, call, query, requests, calls,
                   sent, runs>>

Next ==
    \/ \E q \in Queries : Run(q)
    \/ AgentCall
    \/ \E completion \in Completions : ExecuteReturns(completion)
    \/ ExecuteRaises
    \/ \E env \in Environments(call.tool) : ToolReturns(env)
    \/ ReturnExhausted

Spec == Init /\ [][Next]_vars

\* The search capability on every page: the run is inside tool(arg) of its
\* first iteration, for the completion TWiki, and the backend answers.
SearchInit ==
    /\ messages = <<Message("user", <<"q">>), Message("assistant", TWiki)>>
    /\ pc = "tool"
    /\ i = 0
    /\ next_prompt = <<"q">>
    /\ result = TWiki
    /\ call = [name |-> "wikipedia", tool |-> "BingSearch", arg |-> <<"France">>]
    /\ retval = <<>>
    /\ state = "RUNNING"
    /\ query = <<"q">>
    /\ requests = 1
    /\ calls = <<>>
    /\ sent = <<Message("user", <<"q">>)>>
    /\ runs = 1

SearchNext == \E env \in SearchPages : ToolReturns(env)

SearchSpec == SearchInit /\ [][SearchNext]_vars

\* Number of times run is called on one agent.
MaxRuns == 2

\* The completions of the runs that share an agent.
ReuseCompletions == {TAnswer, TNoPause, TCalc}

\* run(agent, query) is called again, with the agent of the run that has
\* returned: the locals of run are new, the agent is as the last run left it.
RunAgain(q) ==
    /\ pc = "returned"
    /\ runs < MaxRuns
    /\ pc' = "for"
    /\ query' = q
    /\ next_prompt' = q
    /\ i' = 0
    /\ result' = <<>>
    /\ retval' = <<>>
    /\ state' = "RUNNING"
    /\ requests' = 0
    /\ calls' = <<>>
    /\ runs' = runs + 1
    /\ UNCHANGED <<messages, call, sent>>

ReuseNext ==
    \/ \E q \in Queries : Run(q)
    \/ \E q \in Queries : RunAgain(q)
    \/ AgentCall
    \/ \E completion \in ReuseCompletions : ExecuteReturns(completion)
    \/ ExecuteRaises
    \/ \E env \in Environments(call.tool) : ToolReturns(env)
    \/ ReturnExhausted

\* The caller keeps the agent and calls run on it MaxRuns times.
ReuseSpec == Init /\ [][ReuseNext]_vars

\* run is sequential code: whatever step is enabled is taken.
LiveSpec == Init /\ [][Next]_vars /\ WF_vars(Next)

(***************************************************************************)
(* Views of the state used by the properties                               *)
(***************************************************************************)
\* The contents of the messages of a role, in transcript order.
RECURSIVE ContentsOf(_, _)
ContentsOf(msgs, role) ==
    IF msgs = <<>> THEN <<>>
    ELSE IF Head(msgs).role = role
         THEN <<Head(msgs).content>> \o ContentsOf(Tail(msgs), role)
         ELSE ContentsOf(Tail(msgs), role)

\* The completions received so far: the k-th is that of iteration k.
Assistants == ContentsOf(messages, "assistant")
Users == ContentsOf(messages, "user")

\* What follows the k-th assistant message in msgs.
RECURSIVE After(_, _)
After(msgs, k) ==
    IF msgs = <<>> THEN <<>>
    ELSE IF Head(msgs).role = "assistant"
         THEN IF k = 1 THEN Tail(msgs) ELSE After(Tail(msgs), k - 1)
         ELSE After(Tail(msgs), k)

\* The message that follows the k-th assistant message of the transcript.
Following(k) == Head(After(messages, k))

\* The text has the word w in it.
HasWord(text, w) == w \in {text[k] : k \in 1..Len(text)}

\* The completion passes line 175 (no Answer) and line 178 (PAUSE and Action).
PassesChecks(text) ==
    /\ ~HasWord(text, "Answer")
    /\ HasWord(text, "PAUSE")
    /\ HasWord(text, "Action")

\* The calls made in iteration k.
CallsOf(k) == {n \in 1..Len(calls) : calls[n].iteration = k}

\* The names the registry is built with.
RegisteredNames == {"wikipedia", "calculate"}

(***************************************************************************)
(* C1: a completion that contains "Answer" anywhere ends the run in that   *)
(* very iteration: run returns exactly that text, whether or not the text  *)
(* also holds a well-formed Action/PAUSE directive; no capability is       *)
(* invoked in that iteration and no completion is requested afterwards.    *)
(***************************************************************************)
C1_AnswerTerminates ==
    LET a == Assistants IN
    \A k \in 1..Len(a) :
        HasWord(a[k], "Answer") =>
            /\ k = Len(a)
            /\ pc = "returned"
            /\ state = "ANSWERED"
            /\ retval = a[k]
            /\ requests = k
            /\ CallsOf(k) = {}
            /\ call = NoCall

\* run has returned, in a later iteration, a text with Answer and a directive.
C1_Witness ==
    /\ pc = "returned"
    /\ retval = TAnswerAction
    /\ Len(Assistants) >= 2
    /\ PassesChecks(Assistants[1])

(***************************************************************************)
(* C2: when none of the first MaxIterations completions contains "Answer", *)
(* run returns the exhaustion sentinel after exactly MaxIterations         *)
(* iterations and exactly MaxIterations completions were requested: never  *)
(* more, whatever the completions were.                                    *)
(***************************************************************************)
C2_ExhaustionAfterBudget ==
    LET a == Assistants IN
    /\ requests <= MaxIterations
    /\ (pc = "returned" /\ \A k \in 1..Len(a) : ~HasWord(a[k], "Answer"))
           => /\ retval = ExhaustedSentinel
              /\ state = "EXHAUSTED"
              /\ i = MaxIterations
              /\ Len(a) = MaxIterations
              /\ requests = MaxIterations
    /\ (state = "EXHAUSTED") => (pc = "returned" /\ requests = MaxIterations)

\* Exhausted after a mix of a dispatched, a malformed and an unknown-name turn.
C2_Witness ==
    /\ pc = "returned"
    /\ retval = ExhaustedSentinel
    /\ calls # <<>>
    /\ \E k \in 1..Len(Assistants) : Assistants[k] = TNoPause
    /\ \E k \in 1..Len(Assistants) : Assistants[k] = TUnknown

(***************************************************************************)
(* C3: a completion without "Answer" that lacks "PAUSE" or lacks "Action"  *)
(* uses up exactly one iteration, invokes no capability and does not fail: *)
(* the run goes on at the head of the loop.                                *)
(***************************************************************************)
C3_FormatFaultStep ==
    [][(/\ pc = "execute"
        /\ pc' # "raised"
        /\ ~HasWord(result', "Answer")
        /\ (~HasWord(result', "PAUSE") \/ ~HasWord(result', "Action")))
       => (/\ i' = i + 1
           /\ pc' = "for"
           /\ state' = "RUNNING"
           /\ call' = NoCall
           /\ calls' = calls
           /\ requests' = requests)]_vars

\* A turn that has Action but no PAUSE is over and the loop is at its head.
C3_Witness ==
    /\ pc = "for"
    /\ i >= 1
    /\ result = TNoPause
    /\ Len(Assistants) = i
    /\ CallsOf(i) = {}

(***************************************************************************)
(* C4: a completion that passes both checks and yields a directive whose   *)
(* name is registered makes the loop call exactly the capability           *)
(* registered under that name with exactly the extracted argument, and the *)
(* next prompt is "Observation: " followed by what the capability          *)
(* returned.  "Thought: x\nAction: calculate: 2 + 2\nPAUSE" gives          *)
(* ("calculate", "2 + 2") and the next prompt "Observation: 4".            *)
(***************************************************************************)
C4_Dispatch ==
    LET a == Assistants IN
    /\ \A n \in 1..Len(calls) :
         LET c == calls[n]
             text == a[c.iteration]
         IN /\ PassesChecks(text)
            /\ [name |-> c.name, arg |-> c.arg] = extract_action(text)
            /\ c.name \in RegisteredNames
            /\ c.tool = (IF c.name = "calculate" THEN "Calculator" ELSE "BingSearch")
            /\ (text = TCalc) =>
                  /\ c.name = "calculate"
                  /\ c.arg = <<"2", " + ", "2">>
                  /\ c.value = <<"4">>
            /\ (pc = "for" /\ i = c.iteration) =>
                  next_prompt = <<"Observation", ": ">> \o c.value
            /\ (requests > c.iteration) =>
                  Following(c.iteration) =
                      Message("user", <<"Observation", ": ">> \o c.value)
    /\ (pc = "tool") =>
         /\ [name |-> call.name, arg |-> call.arg] = extract_action(result)
         /\ (result = TCalc) => call.arg = <<"2", " + ", "2">>
         /\ call.tool = (IF call.name = "calculate" THEN "Calculator" ELSE "BingSearch")
    /\ \A k \in 1..Len(a) :
         LET action == extract_action(a[k]) IN
         (/\ PassesChecks(a[k])
          /\ action # NoAction
          /\ action.name \in RegisteredNames
          /\ (requests > k \/ pc \in {"for", "returned"}))
         => Cardinality(CallsOf(k)) = 1

\* The example of the claim has been dispatched and its observation is set.
C4_Witness ==
    /\ pc = "for"
    /\ i >= 1
    /\ result = TCalc
    /\ CallsOf(i) # {}
    /\ next_prompt = <<"Observation", ": ", "4">>

(***************************************************************************)
(* C5: a completion that passes both checks and whose extracted name is    *)
(* not registered invokes no capability; the next prompt is exactly        *)
(* "Observation: Tool '<name>' not found"; the run is not aborted; that    *)
(* text is the user message of the following iteration, if there is one.   *)
(***************************************************************************)
C5_UnknownTool ==
    LET a == Assistants IN
    \A k \in 1..Len(a) :
        LET text == a[k]
            action == extract_action(text)
            notFound == <<"Observation", ": ", "Tool '", action.name, "' not found">>
        IN (PassesChecks(text) /\ action # NoAction /\ action.name \notin RegisteredNames)
           => /\ CallsOf(k) = {}
              /\ (requests = k) =>
                    /\ pc \in {"for", "returned"}
                    /\ call = NoCall
                    /\ i = k
                    /\ next_prompt = notFound
                    /\ (pc = "returned") => state = "EXHAUSTED"
              /\ (requests > k) => Following(k) = Message("user", notFound)
              /\ (text = TUnknown) =>
                    notFound = <<"Observation", ": ", "Tool '", "unknown_tool",
                                 "' not found">>

\* The not-found text of an unknown name has been sent as a user message.
C5_Witness ==
    /\ Len(Assistants) >= 2
    /\ Assistants[1] = TUnknown
    /\ Following(1) =
           Message("user", <<"Observation", ": ", "Tool '", "unknown_tool",
                             "' not found">>)
    /\ calls = <<>>

\* Positions where a line of the text begins with "Action:".
ActionLines(text) ==
    {p \in 1..(Len(text) - 1) :
        /\ text[p] = "Action"
        /\ text[p + 1] = ": "
        /\ (p = 1 \/ text[p - 1] = NL)}

\* Positions where the text reads "Action: <name>: <something>", any case.
DirectiveStarts(text) ==
    {p \in 1..(Len(text) - 4) :
        /\ text[p] \in {"Action", "action"}
        /\ text[p + 1] = ": "
        /\ text[p + 2] \in WordTokens
        /\ text[p + 3] = ": "
        /\ text[p + 4] # NL}

Least(S) == CHOOSE p \in S : \A r \in S : p <= r

\* The tokens from position p to the end of its line.
ToEndOfLine(text, p) ==
    IF p > Len(text) THEN <<>>
    ELSE LET stops == {e \in p..Len(text) : text[e] = NL}
         IN SubSeq(text, p, IF stops = {} THEN Len(text) ELSE Least(stops) - 1)

\* The directive read off the line that starts at position p.
DirectiveAt(text, p) ==
    [name |-> IF p + 2 <= Len(text) THEN text[p + 2] ELSE None,
     arg |-> ToEndOfLine(text, p + 4)]

\* The directives dispatched so far, the one in flight included, each with
\* the number of its iteration.
Dispatched ==
    {[iteration |-> calls[n].iteration, name |-> calls[n].name, arg |-> calls[n].arg] :
        n \in 1..Len(calls)}
    \cup (IF pc = "tool"
          THEN {[iteration |-> i + 1, name |-> call.name, arg |-> call.arg]}
          ELSE {})

(***************************************************************************)
(* C6: when a completion has two or more "Action:" lines, the directive    *)
(* dispatched is the first match, in text order, of the pattern            *)
(* "Action: <name>: <rest of line>" (case-insensitive); an earlier         *)
(* "Action:" line that does not match the pattern is skipped; no           *)
(* capability call is made for any later line of the same completion.      *)
(***************************************************************************)
C6_FirstMatchingActionLine ==
    LET a == Assistants IN
    /\ \A d \in Dispatched :
         LET text == a[d.iteration] IN
         Cardinality(ActionLines(text)) >= 2 =>
            /\ DirectiveStarts(text) # {}
            /\ [name |-> d.name, arg |-> d.arg] =
                   DirectiveAt(text, Least(DirectiveStarts(text)))
    /\ \A k \in 1..Len(a) : Cardinality(CallsOf(k)) <= 1

\* C6 as first stated: the directive dispatched is that of the first
\* "Action:" line of the completion.
C6_FirstActionLine ==
    LET a == Assistants IN
    /\ \A d \in Dispatched :
         LET text == a[d.iteration] IN
         Cardinality(ActionLines(text)) >= 2 =>
            [name |-> d.name, arg |-> d.arg] =
                DirectiveAt(text, Least(ActionLines(text)))
    /\ \A k \in 1..Len(a) : Cardinality(CallsOf(k)) <= 1

\* A completion with two well-formed Action lines was dispatched and its
\* iteration is over with a single call, that of the first line.
C6_Witness ==
    /\ pc = "for"
    /\ i >= 1
    /\ result = TTwo
    /\ Cardinality(CallsOf(i)) = 1
    /\ \E n \in CallsOf(i) : calls[n].name = "calculate"

\* The transcript is an optional system message, then n times user, assistant.
Alternates(msgs, n) ==
    LET off == IF msgs # <<>> /\ msgs[1].role = "system" THEN 1 ELSE 0 IN
    /\ Len(msgs) = off + 2 * n
    /\ \A k \in 1..n :
         /\ msgs[off + 2 * k - 1].role = "user"
         /\ msgs[off + 2 * k].role = "assistant"

(***************************************************************************)
(* C7: on a freshly built agent and for every non-empty query, after N     *)
(* iterations (M <= N of them format or parse faults) the transcript is at *)
(* most one system message followed by exactly N user and N assistant      *)
(* messages that alternate user, assistant.  With an empty query the user  *)
(* message of an iteration is skipped while next_prompt is empty.          *)
(***************************************************************************)
C7_TranscriptShapeNonEmptyQuery ==
    (query # <<>>) =>
        /\ (pc \in {"for", "tool", "returned"}) => Alternates(messages, requests)
        /\ (pc = "execute") =>
              /\ Alternates(SubSeq(messages, 1, Len(messages) - 1), requests - 1)
              /\ messages[Len(messages)].role = "user"

\* C7 as first stated: the shape holds for every initial query, the empty
\* one included.
C7_TranscriptShapeAnyQuery ==
    (pc \in {"for", "tool", "returned"}) => Alternates(messages, requests)

\* Two iterations are over, the second one a parse fault, after a system
\* message.
C7_Witness ==
    /\ pc = "for"
    /\ i = 2
    /\ query # <<>>
    /\ result = TSpaced
    /\ messages[1].role = "system"
    /\ Len(messages) = 5

(***************************************************************************)
(* C8: a fault of the operation under a capability never reaches the loop: *)
(* the capability returns a failure string instead of raising (so for the  *)
(* calculation of an argument made of identifiers), the next prompt is     *)
(* "Observation: " plus that string, and the run goes on as after a        *)
(* successful call.                                                        *)
(***************************************************************************)
C8_FaultsBecomeObservations ==
    /\ \A n \in 1..Len(calls) :
         LET c == calls[n] IN
         /\ ~c.raised
         /\ (c.tool = "Calculator" /\ c.arg = <<"foo">>) => c.fault
         /\ c.fault =>
               /\ Len(c.value) > 2
               /\ SubSeq(c.value, 1, 2) =
                     (IF c.tool = "Calculator"
                      THEN <<"calculation failed", ": ">>
                      ELSE <<"search failed", ": ">>)
         /\ (pc = "for" /\ i = c.iteration) =>
               /\ next_prompt = <<"Observation", ": ">> \o c.value
               /\ state = "RUNNING"
         /\ (requests > c.iteration) =>
               Following(c.iteration) =
                   Message("user", <<"Observation", ": ">> \o c.value)
    /\ (pc = "raised") => (call = NoCall /\ Len(Assistants) = requests - 1)

\* A failed calculation and a failed search were both fed back and the run
\* is at the head of the loop again.
C8_Witness ==
    /\ pc = "for"
    /\ \E n \in 1..Len(calls) : calls[n].fault /\ calls[n].tool = "Calculator"
    /\ \E n \in 1..Len(calls) : calls[n].fault /\ calls[n].tool = "BingSearch"
    /\ Len(Users) = 2

(***************************************************************************)
(* C9: what run returns is either the completion that contains "Answer",   *)
(* verbatim, or the exhaustion sentinel; never an observation, a failure   *)
(* string, a not-found text or the query.                                  *)
(***************************************************************************)
C9_ReturnValue ==
    (pc = "returned") =>
        LET a == Assistants
            u == Users
        IN /\ \/ state = "EXHAUSTED" /\ retval = <<"iteration limit reached">>
              \/ /\ state = "ANSWERED"
                 /\ a # <<>>
                 /\ retval = a[Len(a)]
                 /\ HasWord(retval, "Answer")
           /\ retval # query
           /\ retval # next_prompt
           /\ retval[1] # "Observation"
           /\ \A k \in 1..Len(u) : retval # u[k]
           /\ \A n \in 1..Len(calls) : retval # calls[n].value

\* An answer is returned after a failed call and an unknown name.
C9_Witness ==
    /\ pc = "returned"
    /\ state = "ANSWERED"
    /\ retval = TAnswer
    /\ \E n \in 1..Len(calls) : calls[n].fault
    /\ \E k \in 1..Len(Assistants) : Assistants[k] = TUpper

(***************************************************************************)
(* C10: provided every completion request and every capability call        *)
(* returns, every run leaves RUNNING for ANSWERED or EXHAUSTED, and it     *)
(* never requests more than MaxIterations completions, whatever malformed  *)
(* completions, unparseable directives or unknown names occur.             *)
(***************************************************************************)
C10_Terminates ==
    /\ [](requests <= MaxIterations)
    /\ ([](pc # "raised") => <>(state \in {"ANSWERED", "EXHAUSTED"}))

\* The budget was used up by a malformed, an unparseable and an unknown turn.
C10_Witness ==
    /\ state = "EXHAUSTED"
    /\ calls = <<>>
    /\ \E k \in 1..Len(Assistants) : Assistants[k] = TNoPause
    /\ \E k \in 1..Len(Assistants) : Assistants[k] = TSpaced
    /\ \E k \in 1..Len(Assistants) : Assistants[k] = TUnknown

\* The blocks of a page that have both a heading and a caption, in order.
MatchingBlocks(blocks) ==
    SelectSeq(blocks, LAMBDA b : b.title # None /\ b.desc # None)

\* Number of lines of a text.
LineCount(text) == 1 + Cardinality({p \in 1..Len(text) : text[p] = NL})

\* The line "<heading>: <caption>" of the n-th block of a sequence, as the
\* tokens of the text from position 4 * n - 3 on.
LineOfBlock(text, n) == SubSeq(text, 4 * n - 3, 4 * n - 1)

(***************************************************************************)
(* C11: for a page with no block that has both a heading and a caption the *)
(* search capability returns the "no results" sentinel (no empty string,   *)
(* no exception); for a page with k such blocks it returns the             *)
(* "<heading>: <caption>" lines of the first min(k, 5) of them, in         *)
(* document order, and never more than 5 lines.                            *)
(***************************************************************************)
C11_SearchResults ==
    \A n \in 1..Len(calls) :
        \A page \in SearchPages :
            LET c == calls[n]
                hits == MatchingBlocks(page.blocks)
                k == Len(hits)
                kept == IF k < 5 THEN k ELSE 5
            IN (c.tool = "BingSearch" /\ c.value = BingSearch(c.arg, page).value) =>
                  /\ ~c.raised
                  /\ ~c.fault
                  /\ c.value # <<>>
                  /\ (k = 0) => c.value = <<"no results">>
                  /\ (k > 0) =>
                        /\ LineCount(c.value) = kept
                        /\ Len(c.value) = 4 * kept - 1
                        /\ \A m \in 1..kept :
                              LineOfBlock(c.value, m) =
                                  <<hits[m].title, ": ", hits[m].desc>>

\* The search returned five lines, the fifth for the fifth block of its page.
C11_Witness ==
    /\ calls # <<>>
    /\ LineCount(calls[1].value) = 5
    /\ LineOfBlock(calls[1].value, 5) = <<"t5", ": ", "d5">>
    /\ pc = "for"

\* The messages iteration k starts from: the transcript after the completion
\* of iteration k - 1 (after the system message, for the first iteration).
PromptSegment(k) ==
    IF k > 1 THEN After(messages, k - 1)
    ELSE IF messages # <<>> /\ Head(messages).role = "system" THEN Tail(messages)
    ELSE messages

\* The user message appended at the start of iteration k: a sequence of one
\* text, or the empty sequence when the iteration appended none.
PromptOf(k) ==
    LET seg == PromptSegment(k) IN
    IF seg # <<>> /\ Head(seg).role = "user" THEN <<Head(seg).content>> ELSE <<>>

\* The completion is neither an answer nor dispatched: it lacks "PAUSE" or
\* "Action" (format fault) or has no directive in it (parse fault).
Fault(text) ==
    /\ ~HasWord(text, "Answer")
    /\ \/ ~HasWord(text, "PAUSE")
       \/ ~HasWord(text, "Action")
       \/ DirectiveStarts(text) = {}

(***************************************************************************)
(* C12: on a format fault (the completion lacks "PAUSE" or "Action") or a  *)
(* parse fault (the parser yields nothing) next_prompt is left unchanged:  *)
(* the user message appended at the start of the next iteration is the one *)
(* appended at the start of the faulting iteration, and no capability is   *)
(* invoked in between.                                                     *)
(***************************************************************************)
C12_FaultKeepsPrompt ==
    /\ [](LET a == Assistants IN
          \A k \in 1..Len(a) :
              Fault(a[k]) =>
                 /\ CallsOf(k) = {}
                 /\ (requests = k) => (call = NoCall /\ pc \in {"for", "returned"})
                 /\ (requests > k) => PromptOf(k + 1) = PromptOf(k))
    /\ [][(pc = "execute" /\ pc' = "for" /\ Fault(result'))
          => (/\ next_prompt' = next_prompt
              /\ calls' = calls
              /\ call' = NoCall)]_vars

\* An observation was sent a second time after a parse fault, with a single
\* capability call in the run.
C12_Witness ==
    /\ Len(Assistants) = 2
    /\ requests = 3
    /\ Assistants[1] = TCalc
    /\ Assistants[2] = TSpaced
    /\ PromptOf(2) = <<<<"Observation", ": ", "4">>>>
    /\ PromptOf(3) = PromptOf(2)
    /\ Len(calls) = 1

\* Requests in flight: the completion request and the capability call.
Outstanding ==
    (IF pc = "execute" THEN 1 ELSE 0) + (IF call # NoCall THEN 1 ELSE 0)

(***************************************************************************)
(* C13: no parallel dispatch.  In every iteration at most one capability   *)
(* call is made; it starts only after that iteration's completion request  *)
(* has returned and is over before the next completion request is issued:  *)
(* at every point of a run at most one request of any kind (completion or  *)
(* capability) is outstanding.                                             *)
(***************************************************************************)
C13_NoParallelDispatch ==
    /\ Outstanding <= 1
    /\ (call # NoCall) <=> (pc = "tool")
    /\ (pc = "tool") =>
          /\ Len(Assistants) = requests
          /\ requests = i + 1
          /\ CallsOf(requests) = {}
    /\ \A k \in 1..requests : Cardinality(CallsOf(k)) <= 1
    /\ \A n \in 1..Len(calls) :
          /\ calls[n].iteration <= Len(Assistants)
          /\ (pc = "execute") => calls[n].iteration < requests
          /\ \A m \in 1..(n - 1) : calls[m].iteration < calls[n].iteration

\* A second capability call is in flight after the first one was over and
\* the second completion had come back.
C13_Witness ==
    /\ pc = "tool"
    /\ Len(calls) = 1
    /\ calls[1].iteration = 1
    /\ requests = 2
    /\ Len(Assistants) = 2

\* s is a prefix of t.
IsPrefix(s, t) == Len(s) <= Len(t) /\ SubSeq(t, 1, Len(s)) = s

\* Positions of the system messages of the transcript.
SystemPositions == {k \in 1..Len(messages) : messages[k].role = "system"}

(***************************************************************************)
(* C14: the transcript is append-only and system-first.  Every step leaves *)
(* the transcript as it was or appends messages to it (so the transcript   *)
(* of every state extends that of every earlier state); it holds at most   *)
(* one system message, at position 1 if present; and the transcript handed *)
(* to each completion request is the full transcript at that moment.       *)
(***************************************************************************)
C14_AppendOnlySystemFirst ==
    /\ [][IsPrefix(messages, messages')]_vars
    /\ [](SystemPositions \subseteq {1})
    /\ []((pc = "execute") => (sent = messages))
    /\ [](IsPrefix(sent, messages))

\* The third request of a run with a system message: the full transcript of
\* six messages, system first, was handed over.
C14_Witness ==
    /\ pc = "execute"
    /\ requests = 3
    /\ Len(messages) = 6
    /\ messages[1] = Message("system", SYSTEM_PROMPT)
    /\ sent = messages

\* The run ended in an exception of the completion request: the request
\* was made and no completion came back for it.
CompletionFailed == pc = "raised" /\ Len(Assistants) = requests - 1

(***************************************************************************)
(* C15: a fault of the completion source is fatal and unrecovered.  A      *)
(* completion request that ends without a completion ends the run in the   *)
(* exception: nothing is retried, no further completion is requested, no   *)
(* capability is invoked afterwards, run returns neither an answer nor the *)
(* exhaustion sentinel, and the caller of run gets the failure.            *)
(***************************************************************************)
C15_CompletionFaultFatal ==
    /\ [][(pc = "execute" /\ Len(Assistants') = Len(Assistants))
          => (/\ pc' = "raised"
              /\ requests' = requests
              /\ calls' = calls
              /\ messages' = messages)]_vars
    /\ [][pc # "raised"]_vars
    /\ [](CompletionFailed =>
             /\ state = "RUNNING"
             /\ retval = <<>>
             /\ call = NoCall
             /\ CallsOf(requests) = {})

\* The second completion request of a run failed, after a capability call in
\* the first iteration.
C15_Witness ==
    /\ CompletionFailed
    /\ requests = 2
    /\ Len(calls) = 1

\* The name is made of lowercase letters and underscores only.
IsLowercaseName(name) == name \in WordTokens /\ Lower(name) = name

(***************************************************************************)
(* C16: every directive returned by the parser has a name of one or more   *)
(* lowercase letters or underscores only; the parser returns None exactly  *)
(* when the text has no "Action: <name>: <rest of line>" match; the parser *)
(* does not check the name against the registry.                           *)
(***************************************************************************)
C16_LowercaseNames ==
    LET a == Assistants IN
    \A k \in 1..Len(a) :
        LET action == extract_action(a[k]) IN
        /\ (action # NoAction) => IsLowercaseName(action.name)
        /\ (action = NoAction) <=> (DirectiveStarts(a[k]) = {})
        /\ (a[k] = TUnknown) => action.name = "unknown_tool"

(***************************************************************************)
(* C17: step 1 of an iteration appends next_prompt to the transcript as a  *)
(* user message if and only if next_prompt is non-empty; with an empty     *)
(* next_prompt the iteration appends no user message, still requests a     *)
(* completion over the unchanged transcript, and appends the assistant     *)
(* message.                                                                *)
(***************************************************************************)
C17_UserMessageIffPrompt ==
    /\ [][(pc = "for" /\ pc' = "execute")
          => (/\ (next_prompt # <<>>) =>
                    messages' = Append(messages, Message("user", next_prompt))
              /\ (next_prompt = <<>>) => messages' = messages
              /\ requests' = requests + 1
              /\ sent' = messages')]_vars
    /\ [][(pc = "execute" /\ pc' # "raised")
          => messages' = Append(messages, Message("assistant", result'))]_vars

\* Two iterations of a run with the empty query: two completions in the
\* transcript and no user message.
C17_Witness ==
    /\ query = <<>>
    /\ runs = 1
    /\ requests = 2
    /\ Users = <<>>
    /\ Len(Assistants) = 2
    /\ sent = <<Message("system", SYSTEM_PROMPT), Message("assistant", TNoPause)>>

\* The transcript a new agent sends with its first request: the system
\* message, if the agent has one, and the query, if it is not empty.
FreshTranscript ==
    (IF messages # <<>> /\ messages[1].role = "system" THEN <<messages[1]>> ELSE <<>>)
        \o (IF query # <<>> THEN <<Message("user", query)>> ELSE <<>>)

(***************************************************************************)
(* C18: a transcript lives for exactly one run.  At the first completion   *)
(* request of any invocation of run the transcript handed over consists of *)
(* the optional system message followed by that run's query only: when run *)
(* is invoked twice in sequence, no message of the first run is sent to    *)
(* the completion source during the second.                                *)
(***************************************************************************)
C18_TranscriptOfOneRun ==
    (pc = "execute" /\ i = 0) => (sent = FreshTranscript)

\* The iterations before iteration k that reached dispatch: their completion
\* was no answer and no fault.
DispatchedBefore(a, k) ==
    {j \in 1..(k - 1) : ~HasWord(a[j], "Answer") /\ ~Fault(a[j])}

Greatest(S) == CHOOSE p \in S : \A r \in S : r <= p

\* The observation text iteration j left, read off its completion text and
\* the value of its capability call.
ObservationOf(text, j) ==
    LET d == DirectiveAt(text, Least(DirectiveStarts(text)))
    IN IF d.name \in RegisteredNames
       THEN <<"Observation", ": ">> \o calls[CHOOSE n \in CallsOf(j) : TRUE].value
       ELSE <<"Observation", ": ", "Tool '", d.name, "' not found">>

\* The prompt iteration k is to start with, a being the completions so far.
ExpectedPrompt(a, k) ==
    LET before == DispatchedBefore(a, k) IN
    IF before = {} THEN query
    ELSE ObservationOf(a[Greatest(before)], Greatest(before))

(***************************************************************************)
(* C19: prompt provenance.  At the start of every iteration the prompt     *)
(* appended as the user message is the initial query if no earlier         *)
(* iteration of the run reached dispatch, and otherwise the "Observation:  *)
(* ..." text of the most recent earlier iteration that reached dispatch    *)
(* (capability found or not found); format-fault and parse-fault           *)
(* iterations in between never change it.  Stated of the iteration that   *)
(* started last, in every state: each iteration is the last one started    *)
(* when it starts.                                                         *)
(***************************************************************************)
C19_PromptProvenance ==
    LET a == Assistants IN
    /\ (requests >= 1) =>
          LET expected == ExpectedPrompt(a, requests) IN
          PromptOf(requests) = (IF expected = <<>> THEN <<>> ELSE <<expected>>)
    /\ (pc = "for") => next_prompt = ExpectedPrompt(a, i + 1)

\* The third iteration started with the not-found observation of the first,
\* the second having been a format fault.
C19_Witness ==
    /\ requests = 3
    /\ query = <<"q">>
    /\ Len(Assistants) >= 2
    /\ Assistants[1] = TUnknown
    /\ Assistants[2] = TLower
    /\ PromptOf(1) = <<query>>
    /\ PromptOf(3) = <<ToolNotFound("unknown_tool")>>

\* The completion reaches dispatch with a registered name.
ReachesCapability(text) ==
    /\ ~HasWord(text, "Answer")
    /\ ~Fault(text)
    /\ DirectiveAt(text, Least(DirectiveStarts(text))).name \in RegisteredNames

(***************************************************************************)
(* C20: the observation of the last iteration is dropped.  When the final  *)
(* iteration of the budget reaches dispatch the capability is still        *)
(* invoked, but its observation is neither appended to the transcript nor  *)
(* returned; when run returns the exhaustion sentinel the last message of  *)
(* the transcript is the assistant completion of iteration MaxIterations,  *)
(* and every observation produced in an earlier iteration is the user      *)
(* message of the iteration after it.                                      *)
(***************************************************************************)
C20_LastObservationDropped ==
    (state = "EXHAUSTED") =>
        LET a == Assistants
            last == a[MaxIterations]
        IN /\ Len(a) = MaxIterations
           /\ messages[Len(messages)] = Message("assistant", last)
           /\ After(messages, MaxIterations) = <<>>
           /\ ReachesCapability(last) => Cardinality(CallsOf(MaxIterations)) = 1
           /\ (~HasWord(last, "Answer") /\ ~Fault(last)) =>
                 /\ next_prompt = ObservationOf(last, MaxIterations)
                 /\ retval # next_prompt
           /\ \A n \in CallsOf(MaxIterations) : retval # calls[n].value
           /\ \A j \in DispatchedBefore(a, MaxIterations) :
                 Following(j) = Message("user", ObservationOf(a[j], j))

\* run gave up after calling the calculator in the last iteration of the
\* budget: the observation is in next_prompt only.
C20_Witness ==
    /\ state = "EXHAUSTED"
    /\ retval = ExhaustedSentinel
    /\ result = TCalc
    /\ CallsOf(MaxIterations) # {}
    /\ next_prompt = <<"Observation", ": ", "4">>
    /\ messages[Len(messages)] = Message("assistant", TCalc)
    /\ DispatchedBefore(Assistants, MaxIterations) = {}

====
